---- MODULE Spec2Model ----
(***************************************************************************)
(* Model of spotify-time-capsule-playlist-creator.py: one run of main      *)
(* (credential resolution, playlist lookup with pagination, creation,      *)
(* stratified sampling of the data file, replacement of the playlist's     *)
(* tracks) against a remote service modelled as the user's playlist        *)
(* collection.                                                             *)
(***************************************************************************)
EXTENDS Integers, Sequences, FiniteSets, TLC

VARIABLES
    cred,          \* credential inputs: environment variables and token file
    sp,            \* the client handle main holds ("none" before it has one)
    remote,        \* the remote service: the user's playlists, in enumeration order
    remote0,       \* the remote service as it was when the current run started
    csv,           \* the data file: a sequence of rows [uri, plays]
    pc,            \* position of the running code
    playlist_name, \* the name looked up (main: "My time capsule")
    playlists,     \* playlist_exists: the page currently held (or None)
    playlist_id,   \* the id main / the callee holds (0 is None)
    user_id,       \* create_playlist: the id returned by sp.me() ("" before)
    track_uris,    \* the sequence of URIs handed to replace_tracks / add_tracks
    picked,        \* the data-file rows the selector drew, in output order
    calls,         \* remote calls made by the current run, in order
    err,           \* the exception that ended the run ("none" while there is none)
    run,           \* number of the current run
    created        \* ids of the playlists created so far, over all runs

vars == <<cred, sp, remote, remote0, csv, pc, playlist_name, playlists,
          playlist_id, user_id, track_uris, picked, calls, err, run, created>>

----------------------------------------------------------------------------
(* Bounds of the model *)

\* largest number of playlists in the user's collection before the first run
MaxPlaylists == 3
\* number of playlists the remote service returns per page
PageSize == 2
\* number of sequential runs of main
MaxRuns == 2
\* a stratum of the data file holds at most SampleN + MaxExtra rows
MaxExtra == 1

----------------------------------------------------------------------------
(* Program constants *)

\* df[...].sample(n=10)
SampleN == 10
\* df['plays'] >= 10, df['plays'] < 10
HighPlays == 10
\* df['plays'] >= 5, df['plays'] < 5
MidPlays == 5

\* playlist_name = "My time capsule"
CapsuleName == "My time capsule"
\* description = "Abbie's time capsule playlist ..."
CapsuleDescription == "Abbie's time capsule playlist that automatically refreshes with a random selection of her old tracks every day."

----------------------------------------------------------------------------
(* The remote service *)

Me == "me"
Names == {CapsuleName, "my time capsule", "Other"}

Min(a, b) == IF a < b THEN a ELSE b

\* the track list a playlist holds before any run touched it: 5 old tracks
OldTracks(id) == [i \in 1..5 |-> 1000 + 10 * (id - 100) + i]

\* a playlist that existed before the first run
OldPlaylist(i, nm) ==
    [id |-> 100 + i, name |-> nm, owner |-> Me, public |-> TRUE,
     description |-> "", tracks |-> OldTracks(100 + i)]

\* every collection of at most n playlists with names drawn from Names
Collections(n) ==
    UNION {{[i \in 1..k |-> OldPlaylist(i, f[i])] : f \in [1..k -> Names]} : k \in 0..n}

RECURSIVE MaxId(_)
MaxId(ps) == IF ps = <<>> THEN 100
             ELSE LET m == MaxId(Tail(ps)) IN IF Head(ps).id > m THEN Head(ps).id ELSE m

Ids(ps) == {ps[i].id : i \in 1..Len(ps)}

InsertAt(ps, pos, p) == SubSeq(ps, 1, pos) \o <<p>> \o SubSeq(ps, pos + 1, Len(ps))

\* PageAt with the next link dropped: only the first page is ever seen
PageAtNoNext(ps, offset) ==
    [none  |-> FALSE,
     items |-> SubSeq(ps, offset + 1, Min(offset + PageSize, Len(ps))),
     next  |-> -1]

\* GET /me/playlists?offset=..: one page of the collection and the next link
\* (-1 when the service signals no further page)
PageAt(ps, offset) ==
    [none  |-> FALSE,
     items |-> SubSeq(ps, offset + 1, Min(offset + PageSize, Len(ps))),
     next  |-> IF offset + PageSize < Len(ps) THEN offset + PageSize ELSE -1]

NonePage == [none |-> TRUE, items |-> <<>>, next |-> -1]

\* POST /users/{user}/playlists: the collection with the new playlist at position pos
RemoteCreate(ps, pos, user, nm, pub, desc) ==
    InsertAt(ps, pos, [id |-> MaxId(ps) + 1, name |-> nm, owner |-> user,
                       public |-> pub, description |-> desc, tracks |-> <<>>])

\* RemoteReplace that keeps the previous tracks (items added, not replaced)
RemoteReplaceAppend(ps, id, uris) ==
    [i \in 1..Len(ps) |-> IF ps[i].id = id THEN [ps[i] EXCEPT !.tracks = @ \o uris] ELSE ps[i]]

\* PUT /playlists/{id}/tracks: the whole track list is overwritten
RemoteReplace(ps, id, uris) ==
    [i \in 1..Len(ps) |-> IF ps[i].id = id THEN [ps[i] EXCEPT !.tracks = uris] ELSE ps[i]]

\* POST /playlists/{id}/tracks: the items are appended
RemoteAdd(ps, id, uris) ==
    [i \in 1..Len(ps) |-> IF ps[i].id = id THEN [ps[i] EXCEPT !.tracks = @ \o uris] ELSE ps[i]]

Call(op, arg, ok) == [op |-> op, arg |-> arg, ok |-> ok]

----------------------------------------------------------------------------
(* The data file *)

\* a data file with l rows of plays < 5, then h rows of plays >= 10, then m rows
\* of 5 <= plays < 10; with dup, the second row of each block repeats the URI of
\* the first (the same track listed twice)
MkData(h, m, l, dup) ==
    [i \in 1..(l + h + m) |->
        LET j == IF i <= l THEN i ELSE IF i <= l + h THEN i - l ELSE i - l - h
        IN [uri   |-> IF dup /\ j = 2 THEN i - 1 ELSE i,
            plays |-> IF i <= l THEN (j - 1) % 5
                      ELSE IF i <= l + h THEN 10 + 7 * ((j - 1) % 3)
                      ELSE 5 + ((j - 1) % 5)]]

\* numbers of rows per stratum: every stratum sufficient, at most MaxExtra spare
\* rows in all
SufficientSizes ==
    {s \in [1..3 -> SampleN..(SampleN + MaxExtra)] :
        s[1] + s[2] + s[3] <= 3 * SampleN + MaxExtra}

\* numbers of rows per stratum with exactly one stratum one or two rows short
ShortSizes ==
    {[i \in 1..3 |-> IF i = k THEN SampleN - d ELSE SampleN] : k \in 1..3, d \in 1..2}

SelectorData ==
    {MkData(s[1], s[2], s[3], dup) : s \in SufficientSizes \cup ShortSizes, dup \in BOOLEAN}

\* the data files the runs of main are checked on: 10/10/10 rows (with and
\* without a repeated URI), and one stratum short (9 or 8 rows)
MainData ==
    {MkData(s[1], s[2], s[3], FALSE) : s \in {<<SampleN, SampleN, SampleN>>} \cup ShortSizes}
        \cup {MkData(SampleN, SampleN, SampleN, TRUE)}

----------------------------------------------------------------------------
(* filter_tracks_by_play_count *)

\* HighRows with the comparison off by one: plays > 10
HighRowsStrict(df) == {i \in 1..Len(df) : df[i].plays > HighPlays}

\* rows of df[df['plays'] >= 10]
HighRows(df) == {i \in 1..Len(df) : df[i].plays >= HighPlays}
\* rows of df[(df['plays'] >= 5) & (df['plays'] < 10)]
MidRows(df) == {i \in 1..Len(df) : df[i].plays >= MidPlays /\ df[i].plays < HighPlays}
\* rows of df[df['plays'] < 5]
LowRows(df) == {i \in 1..Len(df) : df[i].plays < MidPlays}

RECURSIVE Asc(_)
Asc(S) == IF S = {} THEN <<>>
          ELSE LET m == CHOOSE x \in S : \A y \in S : x <= y IN <<m>> \o Asc(S \ {m})

Reverse(s) == [i \in 1..Len(s) |-> s[Len(s) + 1 - i]]

\* the orders a random draw is modelled to come out in: file order or reversed
Arrange(s, o) == IF o THEN Reverse(s) ELSE s

\* DataFrame.sample(n): n rows drawn without replacement, in a random order;
\* no outcome (ValueError) when the frame holds fewer than n rows
Sample(S, n) ==
    IF Cardinality(S) < n THEN {}
    ELSE {Arrange(Asc(T), o) : T \in {T \in SUBSET S : Cardinality(T) = n}, o \in BOOLEAN}

\* the rows filter_tracks_by_play_count can draw, in output order
FilterOutcomes(df) ==
    {h \o m \o l : h \in Sample(HighRows(df), SampleN),
                   m \in Sample(MidRows(df), SampleN),
                   l \in Sample(LowRows(df), SampleN)}

\* ['uri'].tolist()
Uris(df, rows) == [i \in 1..Len(rows) |-> df[rows[i]].uri]

----------------------------------------------------------------------------
(* get_spotify_client *)

EnvValues == {"unset", "empty", "set"}

\* truth value of os.getenv(..): None and "" are false
Truthy(v) == v = "set"

Creds == [access_token : EnvValues, client_id : EnvValues, client_secret : EnvValues,
          refresh_token : EnvValues, token_file : BOOLEAN]

\* line 30: client_id and client_secret and refresh_token and redirect_uri, where
\* redirect_uri is a name bound nowhere: evaluating it raises NameError
EnvCondition(c) ==
    IF ~Truthy(c.client_id) THEN "false"
    ELSE IF ~Truthy(c.client_secret) THEN "false"
    ELSE IF ~Truthy(c.refresh_token) THEN "false"
    ELSE "NameError"

Abort(e) == /\ err' = e
            /\ pc' = "aborted"

GetClient ==
    /\ pc = "start"
    /\ IF Truthy(cred.access_token)
       THEN /\ sp' = "token"
            /\ pc' = "find_first"
            /\ UNCHANGED <<err, calls>>
       ELSE IF EnvCondition(cred) = "NameError"
       THEN /\ Abort("NameError")
            /\ UNCHANGED <<sp, calls>>
       ELSE IF EnvCondition(cred) = "true"
       THEN \E ok \in BOOLEAN :
            /\ calls' = Append(calls, Call("refresh_access_token", 0, ok))
            /\ IF ok THEN sp' = "env" /\ pc' = "find_first" /\ UNCHANGED err
                     ELSE Abort("RemoteServiceError") /\ UNCHANGED sp
       ELSE IF ~cred.token_file
       THEN /\ Abort("FileNotFoundError")
            /\ UNCHANGED <<sp, calls>>
       ELSE \E ok \in BOOLEAN :
            /\ calls' = Append(calls, Call("refresh_access_token", 0, ok))
            /\ IF ok THEN sp' = "file" /\ pc' = "find_first" /\ UNCHANGED err
                     ELSE Abort("RemoteServiceError") /\ UNCHANGED sp
    /\ UNCHANGED <<cred, remote, remote0, csv, playlist_name, playlists, playlist_id,
                   user_id, track_uris, picked, run, created>>

----------------------------------------------------------------------------
(* playlist_exists *)

\* FirstMatch that keeps scanning and ends on the last match of the page
LastMatch(items, nm) ==
    IF \E i \in 1..Len(items) : items[i].name = nm
    THEN CHOOSE i \in 1..Len(items) :
            /\ items[i].name = nm
            /\ \A j \in (i + 1)..Len(items) : items[j].name # nm
    ELSE 0

\* index of the first item of the page whose name equals nm, 0 when none does
FirstMatch(items, nm) ==
    IF \E i \in 1..Len(items) : items[i].name = nm
    THEN CHOOSE i \in 1..Len(items) :
            /\ items[i].name = nm
            /\ \A j \in 1..(i - 1) : items[j].name # nm
    ELSE 0

\* line 80: playlists = sp.current_user_playlists()
FetchFirstPage ==
    /\ pc = "find_first"
    /\ \E ok \in BOOLEAN :
        /\ calls' = Append(calls, Call("current_user_playlists", 0, ok))
        /\ IF ok THEN /\ playlists' = PageAt(remote, 0)
                      /\ pc' = "scan"
                      /\ UNCHANGED err
                 ELSE /\ Abort("RemoteServiceError")
                      /\ UNCHANGED playlists
    /\ UNCHANGED <<cred, sp, remote, remote0, csv, playlist_name, playlist_id, user_id,
                   track_uris, picked, run, created>>

\* lines 81-89: one pass of the while loop up to the next remote call or the return
ScanPage ==
    /\ pc = "scan"
    /\ LET k == FirstMatch(playlists.items, playlist_name) IN
       IF k # 0
       THEN /\ playlist_id' = playlists.items[k].id
            /\ pc' = "find_ret"
            /\ UNCHANGED playlists
       ELSE IF playlists.next # -1
       THEN /\ pc' = "find_next"
            /\ UNCHANGED <<playlists, playlist_id>>
       ELSE /\ playlists' = NonePage
            /\ playlist_id' = 0
            /\ pc' = "find_ret"
    /\ UNCHANGED <<cred, sp, remote, remote0, csv, playlist_name, user_id, track_uris,
                   picked, calls, err, run, created>>

\* line 86: playlists = sp.next(playlists)
FetchNextPage ==
    /\ pc = "find_next"
    /\ \E ok \in BOOLEAN :
        /\ calls' = Append(calls, Call("next", playlists.next, ok))
        /\ IF ok THEN /\ playlists' = PageAt(remote, playlists.next)
                      /\ pc' = "scan"
                      /\ UNCHANGED err
                 ELSE /\ Abort("RemoteServiceError")
                      /\ UNCHANGED playlists
    /\ UNCHANGED <<cred, sp, remote, remote0, csv, playlist_name, playlist_id, user_id,
                   track_uris, picked, run, created>>

----------------------------------------------------------------------------
(* create_playlist *)

\* line 63: user_id = sp.me()["id"]
CreateMe ==
    /\ pc = "create_me"
    /\ \E ok \in BOOLEAN :
        /\ calls' = Append(calls, Call("me", 0, ok))
        /\ IF ok THEN /\ user_id' = Me
                      /\ pc' = "create"
                      /\ UNCHANGED err
                 ELSE /\ Abort("RemoteServiceError")
                      /\ UNCHANGED user_id
    /\ UNCHANGED <<cred, sp, remote, remote0, csv, playlist_name, playlists, playlist_id,
                   track_uris, picked, run, created>>

\* CreateArgs with the visibility left at the client library's default (public)
CreateArgsPublic == [description |-> CapsuleDescription, public |-> TRUE]

\* the arguments main passes at line 143: description, public=False
CreateArgs == [description |-> CapsuleDescription, public |-> FALSE]

\* lines 64-66: sp.user_playlist_create(user=user_id, name=name, public=public,
\* description=description); the service places the new playlist anywhere in
\* the enumeration order
CreatePlaylist ==
    /\ pc = "create"
    /\ \E ok \in BOOLEAN :
        /\ calls' = Append(calls, Call("user_playlist_create", 0, ok))
        /\ IF ok
           THEN \E pos \in 0..Len(remote) :
                /\ remote' = RemoteCreate(remote, pos, user_id, playlist_name,
                                          CreateArgs.public, CreateArgs.description)
                /\ playlist_id' = MaxId(remote) + 1
                /\ created' = Append(created, MaxId(remote) + 1)
                /\ pc' = "filter"
                /\ UNCHANGED err
           ELSE /\ Abort("RemoteServiceError")
                /\ UNCHANGED <<remote, playlist_id, created>>
    /\ UNCHANGED <<cred, sp, remote0, csv, playlist_name, playlists, user_id,
                   track_uris, picked, run>>

----------------------------------------------------------------------------
(* replace_tracks, add_tracks *)

\* ReplaceTracks that tries again after a failed call
ReplaceTracksRetry ==
    /\ pc = "replace"
    /\ \E ok \in BOOLEAN :
        /\ calls' = Append(calls, Call("playlist_replace_items", playlist_id, ok))
        /\ IF ok THEN /\ remote' = RemoteReplace(remote, playlist_id, track_uris)
                      /\ pc' = "done"
                 ELSE /\ Len(calls) < 3
                      /\ UNCHANGED <<remote, pc>>
    /\ UNCHANGED <<cred, sp, remote0, csv, playlist_name, playlists, playlist_id, user_id,
                   track_uris, picked, err, run, created>>

\* lines 93-95 (and, in main, the closing message of line 153)
ReplaceTracks ==
    /\ pc = "replace"
    /\ \E ok \in BOOLEAN :
        /\ calls' = Append(calls, Call("playlist_replace_items", playlist_id, ok))
        /\ IF ok THEN /\ remote' = RemoteReplace(remote, playlist_id, track_uris)
                      /\ pc' = "done"
                      /\ UNCHANGED err
                 ELSE /\ Abort("RemoteServiceError")
                      /\ UNCHANGED remote
    /\ UNCHANGED <<cred, sp, remote0, csv, playlist_name, playlists, playlist_id, user_id,
                   track_uris, picked, run, created>>

\* lines 69-75
AddTracks ==
    /\ pc = "add"
    /\ IF track_uris = <<>>
       THEN /\ pc' = "done"
            /\ UNCHANGED <<remote, calls, err>>
       ELSE \E ok \in BOOLEAN :
            /\ calls' = Append(calls, Call("playlist_add_items", playlist_id, ok))
            /\ IF ok THEN /\ remote' = RemoteAdd(remote, playlist_id, track_uris)
                          /\ pc' = "done"
                          /\ UNCHANGED err
                     ELSE /\ Abort("RemoteServiceError")
                          /\ UNCHANGED remote
    /\ UNCHANGED <<cred, sp, remote0, csv, playlist_name, playlists, playlist_id, user_id,
                   track_uris, picked, run, created>>

----------------------------------------------------------------------------
(* filter_tracks_by_play_count, as a step *)

\* lines 99-112: pd.read_csv, three samples, the concatenated URIs; a sample of a
\* stratum with fewer than 10 rows raises ValueError
FilterTracks ==
    /\ pc = "filter"
    /\ IF FilterOutcomes(csv) = {}
       THEN /\ Abort("ValueError")
            /\ UNCHANGED <<track_uris, picked>>
       ELSE \E rows \in FilterOutcomes(csv) :
            /\ picked' = rows
            /\ track_uris' = Uris(csv, rows)
            /\ pc' = "replace"
            /\ UNCHANGED err
    /\ UNCHANGED <<cred, sp, remote, remote0, csv, playlist_name, playlists, playlist_id,
                   user_id, calls, run, created>>

----------------------------------------------------------------------------
(* main *)

\* AfterFind that creates the playlist whatever the lookup returned
AfterFindAlwaysCreate ==
    /\ pc = "find_ret"
    /\ pc' = "create_me"
    /\ UNCHANGED <<cred, sp, remote, remote0, csv, playlist_name, playlists, playlist_id,
                   user_id, track_uris, picked, calls, err, run, created>>

\* lines 141-145: if not playlist_id: create_playlist(...) else: print(found)
AfterFind ==
    /\ pc = "find_ret"
    /\ pc' = IF playlist_id = 0 THEN "create_me" ELSE "filter"
    /\ UNCHANGED <<cred, sp, remote, remote0, csv, playlist_name, playlists, playlist_id,
                   user_id, track_uris, picked, calls, err, run, created>>

\* the external scheduler starts the next run once the process has ended
StartRun ==
    /\ pc \in {"done", "aborted"}
    /\ run < MaxRuns
    /\ run' = run + 1
    /\ pc' = "start"
    /\ sp' = "none"
    /\ remote0' = remote
    /\ playlists' = NonePage
    /\ playlist_id' = 0
    /\ user_id' = ""
    /\ track_uris' = <<>>
    /\ picked' = <<>>
    /\ calls' = <<>>
    /\ err' = "none"
    /\ UNCHANGED <<cred, remote, csv, playlist_name, created>>

\* the locals of a process that has just started
Fresh ==
    /\ sp = "none"
    /\ remote0 = remote
    /\ playlists = NonePage
    /\ playlist_id = 0
    /\ user_id = ""
    /\ track_uris = <<>>
    /\ picked = <<>>
    /\ calls = <<>>
    /\ err = "none"
    /\ run = 1
    /\ created = <<>>

NoCred == [access_token |-> "unset", client_id |-> "unset", client_secret |-> "unset",
           refresh_token |-> "unset", token_file |-> FALSE]

\* the credential inputs the runs of main are checked on: a direct token, the
\* token file, the three environment credentials, nothing at all
MainCreds ==
    {[NoCred EXCEPT !.access_token = "set"],
     [NoCred EXCEPT !.token_file = TRUE],
     [NoCred EXCEPT !.client_id = "set", !.client_secret = "set", !.refresh_token = "set",
                    !.token_file = TRUE],
     NoCred}

Init ==
    /\ cred \in MainCreds
    /\ remote \in Collections(MaxPlaylists)
    /\ csv \in MainData
    /\ playlist_name = CapsuleName
    /\ pc = "start"
    /\ Fresh

Next ==
    \/ GetClient
    \/ FetchFirstPage
    \/ ScanPage
    \/ FetchNextPage
    \/ AfterFind
    \/ CreateMe
    \/ CreatePlaylist
    \/ FilterTracks
    \/ ReplaceTracks
    \/ StartRun

Spec == Init /\ [][Next]_vars

----------------------------------------------------------------------------
(* get_spotify_client applied to every combination of credential inputs *)

InitCred ==
    /\ cred \in Creds
    /\ remote = <<>>
    /\ csv = MkData(SampleN, SampleN, SampleN, FALSE)
    /\ playlist_name = CapsuleName
    /\ pc = "start"
    /\ Fresh

NextCred == GetClient

SpecCred == InitCred /\ [][NextCred]_vars

----------------------------------------------------------------------------
(* playlist_exists applied to every collection and every name *)

InitFind ==
    /\ cred = [NoCred EXCEPT !.access_token = "set"]
    /\ remote \in Collections(MaxPlaylists + 1)
    /\ csv = MkData(SampleN, SampleN, SampleN, FALSE)
    /\ playlist_name \in Names
    /\ pc = "find_first"
    /\ Fresh

NextFind ==
    \/ FetchFirstPage
    \/ ScanPage
    \/ FetchNextPage

SpecFind == InitFind /\ [][NextFind]_vars /\ WF_vars(NextFind)

----------------------------------------------------------------------------
(* filter_tracks_by_play_count applied to every data file of SelectorData *)

InitSel ==
    /\ cred = [NoCred EXCEPT !.access_token = "set"]
    /\ remote = <<>>
    /\ csv \in SelectorData
    /\ playlist_name = CapsuleName
    /\ pc = "filter"
    /\ Fresh

NextSel == FilterTracks

SpecSel == InitSel /\ [][NextSel]_vars

----------------------------------------------------------------------------
(* replace_tracks and add_tracks applied to a playlist and a sequence of URIs *)

UriInputs == {<<>>, <<1>>, <<2, 1>>}

InitOps ==
    /\ cred = [NoCred EXCEPT !.access_token = "set"]
    /\ remote \in Collections(MaxPlaylists)
    /\ csv = MkData(SampleN, SampleN, SampleN, FALSE)
    /\ playlist_name = CapsuleName
    /\ pc \in {"replace", "add"}
    /\ sp = "none"
    /\ remote0 = remote
    /\ playlists = NonePage
    /\ playlist_id \in Ids(remote)
    /\ user_id = ""
    /\ track_uris \in UriInputs
    /\ picked = <<>>
    /\ calls = <<>>
    /\ err = "none"
    /\ run = 1
    /\ created = <<>>

NextOps ==
    \/ ReplaceTracks
    \/ AddTracks

SpecOps == InitOps /\ [][NextOps]_vars

----------------------------------------------------------------------------
(* Vocabulary of the properties *)

HasName(ps, nm) == \E i \in 1..Len(ps) : ps[i].name = nm

\* position of the first playlist of the collection named nm
FirstNamed(ps, nm) ==
    CHOOSE i \in 1..Len(ps) : ps[i].name = nm /\ \A j \in 1..(i - 1) : ps[j].name # nm

ById(ps, id) == ps[CHOOSE i \in 1..Len(ps) : ps[i].id = id]

CallsOf(op) == {i \in 1..Len(calls) : calls[i].op = op}

Ended == pc \in {"done", "aborted"}

\* the numbers of rows of the data file in the three strata
NHigh == Cardinality({i \in 1..Len(csv) : csv[i].plays >= 10})
NMid  == Cardinality({i \in 1..Len(csv) : csv[i].plays >= 5 /\ csv[i].plays < 10})
NLow  == Cardinality({i \in 1..Len(csv) : csv[i].plays < 5})

AllSufficient == NHigh >= 10 /\ NMid >= 10 /\ NLow >= 10

----------------------------------------------------------------------------
(* C1: a run of main on a data file with a stratum of fewer than 10 rows       *)
(* aborts with no playlist mutation: no create-playlist call, no               *)
(* replace-playlist-items call, and the remote collection is as it was when    *)
(* the run started.                                                            *)
C1_InsufficientDataNoMutation ==
    /\ (Ended /\ ~AllSufficient) => pc = "aborted"
    /\ (err = "ValueError") =>
        /\ ~AllSufficient
        /\ CallsOf("user_playlist_create") = {}
        /\ CallsOf("playlist_replace_items") = {}
        /\ remote = remote0

----------------------------------------------------------------------------
(* C2: on a data file with at least 10 rows in every stratum the selector      *)
(* returns 30 URIs; positions 1-10 are the URIs of rows with plays >= 10,      *)
(* 11-20 of rows with 5 <= plays < 10, 21-30 of rows with plays < 5, and no    *)
(* row is drawn twice.                                                         *)
C2_StratifiedSample ==
    (pc # "filter" /\ AllSufficient) =>
        /\ pc = "replace"
        /\ Len(track_uris) = 30
        /\ Len(picked) = 30
        /\ \A i \in 1..30 : picked[i] \in 1..Len(csv) /\ track_uris[i] = csv[picked[i]].uri
        /\ \A i, j \in 1..30 : i # j => picked[i] # picked[j]
        /\ \A i \in 1..10 : csv[picked[i]].plays >= 10
        /\ \A i \in 11..20 : csv[picked[i]].plays >= 5 /\ csv[picked[i]].plays < 10
        /\ \A i \in 21..30 : csv[picked[i]].plays < 5

\* a sample drawn from a stratum with a spare row, holding two distinct rows
\* that carry the same URI
C2_Witness ==
    /\ pc = "replace"
    /\ Len(csv) > 30
    /\ \E i, j \in 1..30 : i # j /\ track_uris[i] = track_uris[j]

----------------------------------------------------------------------------
(* C3: replace_tracks with an empty sequence of URIs makes no                  *)
(* replace-playlist-items call and leaves the target's track list unchanged.   *)
C3_EmptyReplaceIsNoOp ==
    (track_uris = <<>>) =>
        /\ CallsOf("playlist_replace_items") = {}
        /\ remote = remote0

----------------------------------------------------------------------------
(* C4: when a playlist named "My time capsule" exists at the start of a run    *)
(* that reaches DONE, no playlist is created, the id of the first such         *)
(* playlist is the one used, and its track list is exactly the 30 URIs the     *)
(* selector returned in that run, in that order.                               *)
C4_ExistingPlaylistReplaced ==
    (pc = "done" /\ HasName(remote0, "My time capsule") /\ AllSufficient) =>
        /\ playlist_id = remote0[FirstNamed(remote0, "My time capsule")].id
        /\ CallsOf("user_playlist_create") = {}
        /\ Ids(remote) = Ids(remote0)
        /\ Len(remote) = Len(remote0)
        /\ Len(track_uris) = 30
        /\ track_uris = [i \in 1..30 |-> csv[picked[i]].uri]
        /\ ById(remote, playlist_id).tracks = track_uris

\* the first run is done on a collection whose capsule playlist held 5 old tracks
C4_Witness ==
    /\ pc = "done"
    /\ run = 1
    /\ HasName(remote0, "My time capsule")
    /\ Len(ById(remote0, playlist_id).tracks) = 5
    /\ Len(ById(remote, playlist_id).tracks) = 30

----------------------------------------------------------------------------
(* C5: when no playlist named "My time capsule" exists at the start of a run   *)
(* that reaches DONE, the run created exactly one playlist, owned by the       *)
(* authenticated user, named "My time capsule", private, and it holds exactly  *)
(* 30 tracks.                                                                  *)
C5_PlaylistCreated ==
    (pc = "done" /\ ~HasName(remote0, "My time capsule") /\ AllSufficient) =>
        /\ Cardinality(CallsOf("user_playlist_create")) = 1
        /\ Len(remote) = Len(remote0) + 1
        /\ Cardinality(Ids(remote) \ Ids(remote0)) = 1
        /\ \A i \in 1..Len(remote) :
              remote[i].id \notin Ids(remote0) =>
                  /\ remote[i].id = playlist_id
                  /\ remote[i].name = "My time capsule"
                  /\ remote[i].owner = "me"
                  /\ remote[i].public = FALSE
                  /\ Len(remote[i].tracks) = 30

\* the first run is done on a non-empty collection without a capsule playlist
C5_Witness ==
    /\ pc = "done"
    /\ run = 1
    /\ remote0 # <<>>
    /\ ~HasName(remote0, "My time capsule")
    /\ Len(remote) = Len(remote0) + 1

----------------------------------------------------------------------------
(* C6: playlist_exists fetches the pages in sequence until a page holds a      *)
(* match or no further page is signalled; it returns the id of the first       *)
(* playlist of the whole collection, in enumeration order, whose name equals   *)
(* the given name, returns None exactly when no playlist has that name, and    *)
(* always terminates (by returning, or by the exception of a failed fetch).    *)
C6_FindResult ==
    /\ \A i \in 1..Len(calls) :
          /\ calls[i].op = (IF i = 1 THEN "current_user_playlists" ELSE "next")
          /\ calls[i].arg = (i - 1) * PageSize
    /\ (pc = "find_ret") =>
          IF HasName(remote, playlist_name)
          THEN /\ playlist_id = remote[FirstNamed(remote, playlist_name)].id
               /\ Len(calls) = ((FirstNamed(remote, playlist_name) - 1) \div PageSize) + 1
          ELSE /\ playlist_id = 0
               /\ Len(calls) * PageSize >= Len(remote)
               /\ Len(calls) = 1 \/ (Len(calls) - 1) * PageSize < Len(remote)

\* C6: the result above holds whenever playlist_exists has returned, and every
\* call of it terminates
C6_FindFirstMatch ==
    /\ []C6_FindResult
    /\ <>(pc \in {"find_ret", "aborted"})

\* a match found on a later page, in a collection that holds the name twice
C6_Witness ==
    /\ pc = "find_ret"
    /\ playlist_id # 0
    /\ Len(calls) >= 2
    /\ Cardinality({i \in 1..Len(remote) : remote[i].name = playlist_name}) >= 2

----------------------------------------------------------------------------
(* C7: get_spotify_client takes the first credential input present: the direct *)
(* access token; else the client id, client secret and refresh token of the    *)
(* environment, from which it refreshes a token and returns a client without   *)
(* failing and without falling through to the file; else the token file.       *)
C7_FirstPresentCredentialWins ==
    (pc # "start") =>
        IF cred.access_token = "set"
        THEN sp = "token"
        ELSE IF cred.client_id = "set" /\ cred.client_secret = "set"
                /\ cred.refresh_token = "set"
        THEN sp = "env" \/ err = "RemoteServiceError"
        ELSE sp = "file" \/ err \in {"FileNotFoundError", "RemoteServiceError"}

----------------------------------------------------------------------------
(* C8: once a run has created the playlist, the lookup of a later run returns  *)
(* the created id, so sequential runs of main create at most one playlist      *)
(* named "My time capsule" in total and the later run reuses that id.          *)
C8_CreateThenFind ==
    /\ Len(created) <= 1
    /\ (/\ created # <<>>
        /\ pc \in {"find_ret", "create_me", "create", "filter", "replace", "done"}) =>
            playlist_id = created[1]
    /\ Cardinality({i \in 1..Len(remote) :
            remote[i].name = "My time capsule" /\ remote[i].id \in {created[k] : k \in 1..Len(created)}}) <= 1

\* the second run is done, having reused the playlist the first run created
C8_Witness ==
    /\ pc = "done"
    /\ run = 2
    /\ Len(created) = 1
    /\ created[1] \in Ids(remote0)
    /\ playlist_id = created[1]
    /\ CallsOf("user_playlist_create") = {}

----------------------------------------------------------------------------
(* C9: a run follows UNKNOWN -> (found | not_found), not_found -> created,     *)
(* {found, created} -> tracks_replaced -> DONE: the remote calls come in the   *)
(* order lookup, pages, identity, create, replace; create-playlist is called   *)
(* at most once and only after the lookup returned None; replace is called at  *)
(* most once, only with the id the lookup or the creation gave, and exactly    *)
(* once, successfully and last, in a run that is DONE.                         *)
C9_Rank(op) ==
    CASE op = "refresh_access_token" -> 0
      [] op = "current_user_playlists" -> 1
      [] op = "next" -> 2
      [] op = "me" -> 3
      [] op = "user_playlist_create" -> 4
      [] op = "playlist_replace_items" -> 5

C9_RunStateMachine ==
    /\ \A i, j \in 1..Len(calls) :
          i < j => \/ C9_Rank(calls[i].op) < C9_Rank(calls[j].op)
                   \/ calls[i].op = "next" /\ calls[j].op = "next"
    /\ \A i \in CallsOf("user_playlist_create") :
          /\ ~HasName(remote0, "My time capsule")
          /\ \E j \in 1..(i - 1) : calls[j].op = "current_user_playlists" /\ calls[j].ok
          /\ \E j \in 1..(i - 1) : calls[j].op = "me" /\ calls[j].ok
    /\ \A i \in CallsOf("playlist_replace_items") :
          /\ calls[i].arg = playlist_id
          /\ playlist_id # 0
          /\ IF HasName(remote0, "My time capsule")
             THEN playlist_id = remote0[FirstNamed(remote0, "My time capsule")].id
             ELSE /\ \E j \in 1..(i - 1) : calls[j].op = "user_playlist_create" /\ calls[j].ok
                  /\ playlist_id = created[Len(created)]
                  /\ playlist_id \notin Ids(remote0)
    /\ (pc = "done") =>
          /\ Cardinality(CallsOf("playlist_replace_items")) = 1
          /\ calls[Len(calls)].op = "playlist_replace_items"
          /\ calls[Len(calls)].ok
    /\ (pc \in {"start", "find_first", "scan", "find_next", "find_ret", "create_me",
                "create", "filter", "replace"}) => CallsOf("playlist_replace_items") = {}

\* a run is DONE after lookup, creation and replacement
C9_Witness ==
    /\ pc = "done"
    /\ CallsOf("user_playlist_create") # {}
    /\ CallsOf("next") # {}

----------------------------------------------------------------------------
(* C10: a failed remote call ends the run: it is the last call of the run      *)
(* (not retried, no later call), the run is aborted and never DONE, and what   *)
(* the run changed before stays (a playlist created earlier remains).          *)
C10_FailedCallIsLast ==
    /\ \A i \in 1..Len(calls) :
          ~calls[i].ok => /\ i = Len(calls)
                          /\ pc = "aborted"
                          /\ err = "RemoteServiceError"
    /\ (pc = "aborted" /\ \E i \in 1..Len(calls) :
                              calls[i].op = "user_playlist_create" /\ calls[i].ok) =>
          /\ created # <<>>
          /\ created[Len(created)] \in Ids(remote) \ Ids(remote0)

\* C10: a failed call is always the last of its run, and an aborted run takes no
\* further step; the only step after it is the start of the next run
C10_FailFast ==
    /\ []C10_FailedCallIsLast
    /\ [][pc = "aborted" => (pc' = "start" /\ run' = run + 1 /\ remote' = remote)]_vars

\* the replacement failed after the run had created the playlist
C10_Witness ==
    /\ pc = "aborted"
    /\ err = "RemoteServiceError"
    /\ calls # <<>>
    /\ calls[Len(calls)].op = "playlist_replace_items"
    /\ \E i \in 1..Len(calls) : calls[i].op = "user_playlist_create" /\ calls[i].ok
    /\ Len(remote) = Len(remote0) + 1

====
